---- MODULE Spec2Model ----
(***************************************************************************)
(* Model of SaveWebPToS3 (src/__init__.py): process() validates the S3     *)
(* configuration, creates the client and fans the batch out over a pool of *)
(* max_workers threads; _process_single_image() encodes the main and the   *)
(* thumbnail artifact in a 2-thread pool, uploads both in a 2-thread pool  *)
(* with up to max_retries attempts and publishes one event per outcome.    *)
(***************************************************************************)
EXTENDS Integers, Sequences, FiniteSets, TLC

\* ---- bounds of the model ------------------------------------------------
NumImages == 2
PoolImages == 5
MaxDim == 101

\* ---- program constants --------------------------------------------------
max_retries == 3
max_workers == 4
thumb_size_default == 600
thumb_size_min == 100
thumb_size_max == 1200

MaxBatch == IF PoolImages > NumImages THEN PoolImages ELSE NumImages
Images == 0 .. (MaxBatch - 1)
Artifacts == {"main", "thumb"}

\* Position of a BytesIO buffer: at its start, or past it (some or all of the
\* stream has been written or read); "none" while the buffer does not exist.
Positions == {"start", "past"}
ConfigFields == {"s3_endpoint", "s3_access_key", "s3_secret_key", "s3_bucket", "s3_public_url"}

VARIABLES
    procState,    \* position of process(): idle, waiting, shutdown, returned, raised
    config,       \* for each configuration field, whether the caller passed it non-empty
    s3,           \* TRUE once boto3.client(...) has been created
    images,       \* the batch: for each image its shape [w, h], in submission order
    thumb_size,   \* the thumb_size argument of process()
    public_url,   \* the s3_public_url argument, as a sequence of tokens
    nImages,      \* len(images) of the batch
    futIdx,       \* index of the future the loop "for future in futures" waits on
    procErr,      \* the exception process() raised (NoErr if none)
    pc,           \* per image: position of _process_single_image
    encTask,      \* per image and artifact: state of the encode task
    upTask,       \* per image and artifact: state of the upload task of the current attempt
    attempt,      \* per image: the loop variable "attempt" (0-based)
    bufPos,       \* per image and artifact: position of main_buffer / thumb_buffer
    startPos,     \* per image and artifact: buffer position seen by the last upload call
    uploadCalls,  \* per image and artifact: number of s3.upload_fileobj calls made
    putKeys,      \* per image and artifact: the keys its upload calls were given
    nextId,       \* number of uuid.uuid4() values drawn so far
    loc,          \* per image: the locals of _process_single_image (NoLocals before it runs)
    exc,          \* per image: the exception its worker raises (NoErr if none)
    sent,         \* per image: the events published for it, in order
    firstFailed   \* index of the image whose future failed first (-1 if none)

vars == <<procState, config, s3, images, thumb_size, public_url, nImages, futIdx,
          procErr, pc, encTask, upTask, attempt, bufPos, startPos, uploadCalls,
          putKeys, nextId, loc, exc, sent, firstFailed>>

inputVars == <<images, thumb_size, public_url>>
batchVars == <<procState, config, s3, inputVars, nImages, futIdx, procErr>>
uploadVars == <<upTask, attempt, startPos, uploadCalls, putKeys>>
localVars == <<nextId, loc>>

\* ---- exceptions and events ----------------------------------------------
NoErr == [idx |-> -1, stage |-> "none", attempt |-> 0, art |-> "none"]
ConfigErr == [idx |-> -1, stage |-> "config", attempt |-> 0, art |-> "none"]
Err(i, stage, att, a) == [idx |-> i, stage |-> stage, attempt |-> att, art |-> a]

FailedEvent_AttemptAsIndex(i, e) ==
    [event |-> "s3-upload-failed", index |-> e.attempt, error |-> e]

FailedEvent(i, e) == [event |-> "s3-upload-failed", index |-> i, error |-> e]

Finished(t) == t \in {"ok", "fail"}
Terminal(i) == pc[i] \in {"done", "failed"}
Busy(i) == pc[i] \in {"encoding", "uploading", "returning", "raising"}

\* ---- pure parts of _process_single_image ---------------------------------
\* Strings are sequences of tokens: a literal of the source is one token, a
\* "/" that rstrip may meet is a token of its own.
get_orientation_TieIsLandscape(w, h) ==
    IF w >= h THEN "landscape" ELSE "portrait"

get_orientation(w, h) ==
    IF w > h THEN "landscape"
    ELSE IF h > w THEN "portrait"
    ELSE "square"

\* str(uuid.uuid4()): the k-th value drawn differs from every other one.
uuid4_Constant(k) == "id"

uuid4(k) == ToString(k)

main_key(orientation, filename) ==
    <<"generated/originals/", orientation, "/", filename, ".webp">>

thumb_key(orientation, filename) ==
    <<"generated/thumbnails/", orientation, "/", filename, "_thumb.webp">>

\* int(h * thumb_size / w): the quotient, rounded toward zero.
ThumbDims_Square(w, h, size) == [thumb_w |-> size, thumb_h |-> size]

ThumbDims(w, h, size) ==
    IF w > h
    THEN [thumb_w |-> size, thumb_h |-> (h * size) \div w]
    ELSE [thumb_w |-> (w * size) \div h, thumb_h |-> size]

RECURSIVE rstrip(_)
rstrip(str) ==
    IF str # <<>> /\ str[Len(str)] = "/" THEN rstrip(SubSeq(str, 1, Len(str) - 1)) ELSE str

Url_NoStrip(base, key) == base \o <<"/">> \o key

Url(base, key) == rstrip(base) \o <<"/">> \o key

NoLocals ==
    [w |-> 0, h |-> 0, filename |-> "", orientation |-> "", main_key |-> <<>>,
     thumb_key |-> <<>>, thumb_w |-> 0, thumb_h |-> 0]

Locals(shape, k, size) ==
    [w |-> shape.w, h |-> shape.h,
     filename |-> uuid4(k),
     orientation |-> get_orientation(shape.w, shape.h),
     main_key |-> main_key(get_orientation(shape.w, shape.h), uuid4(k)),
     thumb_key |-> thumb_key(get_orientation(shape.w, shape.h), uuid4(k)),
     thumb_w |-> ThumbDims(shape.w, shape.h, size).thumb_w,
     thumb_h |-> ThumbDims(shape.w, shape.h, size).thumb_h]

UploadedEvent_Unprefixed(i) ==
    [event |-> "image-uploaded",
     url |-> Url(public_url, loc[i].main_key),
     thumb_url |-> Url(public_url, loc[i].thumb_key),
     path |-> loc[i].main_key,
     thumb_path |-> loc[i].thumb_key,
     orientation |-> loc[i].orientation,
     width |-> loc[i].w,
     height |-> loc[i].h]

UploadedEvent(i) ==
    [event |-> "s3-image-uploaded",
     url |-> Url(public_url, loc[i].main_key),
     thumb_url |-> Url(public_url, loc[i].thumb_key),
     path |-> loc[i].main_key,
     thumb_path |-> loc[i].thumb_key,
     orientation |-> loc[i].orientation,
     width |-> loc[i].w,
     height |-> loc[i].h]

KeyOf(i, a) == IF a = "main" THEN loc[i].main_key ELSE loc[i].thumb_key

\* ---- process(): validation, client, fan-out ------------------------------
ConfigOk_PublicUrlUnchecked(cfg) == \A f \in ConfigFields \ {"s3_public_url"} : cfg[f]

ConfigOk(cfg) == \A f \in ConfigFields : cfg[f]

process(cfg, imgs, size, url) ==
    /\ procState = "idle"
    /\ config' = cfg
    /\ IF ~ConfigOk(cfg)
       THEN /\ procState' = "raised"
            /\ procErr' = ConfigErr
            /\ UNCHANGED <<s3, inputVars, nImages, futIdx, pc>>
       ELSE /\ s3' = TRUE
            /\ images' = imgs
            /\ thumb_size' = size
            /\ public_url' = url
            /\ nImages' = Len(imgs)
            /\ pc' = [i \in Images |-> IF i < Len(imgs) THEN "queued" ELSE "none"]
            /\ futIdx' = 0
            /\ procState' = "waiting"
            /\ procErr' = NoErr
    /\ UNCHANGED <<encTask, uploadVars, bufPos, localVars, exc, sent, firstFailed>>

Init ==
    /\ procState = "idle"
    /\ config = [f \in ConfigFields |-> FALSE]
    /\ s3 = FALSE
    /\ images = <<>>
    /\ thumb_size = thumb_size_default
    /\ public_url = <<>>
    /\ nImages = 0
    /\ futIdx = 0
    /\ procErr = NoErr
    /\ pc = [i \in Images |-> "none"]
    /\ encTask = [i \in Images |-> [a \in Artifacts |-> "idle"]]
    /\ upTask = [i \in Images |-> [a \in Artifacts |-> "idle"]]
    /\ attempt = [i \in Images |-> 0]
    /\ bufPos = [i \in Images |-> [a \in Artifacts |-> "none"]]
    /\ startPos = [i \in Images |-> [a \in Artifacts |-> "none"]]
    /\ uploadCalls = [i \in Images |-> [a \in Artifacts |-> 0]]
    /\ putKeys = [i \in Images |-> [a \in Artifacts |-> {}]]
    /\ nextId = 0
    /\ loc = [i \in Images |-> NoLocals]
    /\ exc = [i \in Images |-> NoErr]
    /\ sent = [i \in Images |-> <<>>]
    /\ firstFailed = -1

\* ---- _process_single_image: start, resize, submit the encode pair ---------
\* Workers of the batch pool take the queued images in submission order, at
\* most max_workers at a time, also while process() is already unwinding.
WorkerFree_Unbounded == TRUE

WorkerFree == Cardinality({j \in Images : Busy(j)}) < max_workers

\* F.interpolate rejects an output size of 0.
StartImage(i, resizeOk) ==
    /\ procState \in {"waiting", "shutdown"}
    /\ pc[i] = "queued"
    /\ \A j \in Images : j < i => pc[j] # "queued"
    /\ WorkerFree
    /\ loc' = [loc EXCEPT ![i] = Locals(images[i + 1], nextId, thumb_size)]
    /\ nextId' = nextId + 1
    /\ resizeOk => (loc'[i].thumb_w >= 1 /\ loc'[i].thumb_h >= 1)
    /\ IF resizeOk
       THEN /\ pc' = [pc EXCEPT ![i] = "encoding"]
            /\ encTask' = [encTask EXCEPT ![i] = [a \in Artifacts |-> "running"]]
            /\ exc' = exc
       ELSE /\ pc' = [pc EXCEPT ![i] = "raising"]
            /\ exc' = [exc EXCEPT ![i] = Err(i, "resize", 0, "thumb")]
            /\ encTask' = encTask
    /\ UNCHANGED <<batchVars, uploadVars, bufPos, sent, firstFailed>>

\* encode_main / encode_thumb: save into a fresh buffer, then buf.seek(0).
EncodedPos == "start"

EncodeFinish(i, a, ok) ==
    /\ pc[i] = "encoding"
    /\ encTask[i][a] = "running"
    /\ encTask' = [encTask EXCEPT ![i][a] = IF ok THEN "ok" ELSE "fail"]
    /\ bufPos' = [bufPos EXCEPT ![i][a] = IF ok THEN EncodedPos ELSE @]
    /\ UNCHANGED <<batchVars, pc, uploadVars, localVars, exc, sent, firstFailed>>

\* Leaving "with ThreadPoolExecutor(max_workers=2) as enc_executor" joins both
\* encode tasks, whether main_future.result() returned or raised.
EncodeJoined(i) == \A a \in Artifacts : Finished(encTask[i][a])

\* upload_executor.submit(upload_main), upload_executor.submit(upload_thumb):
\* both calls of s3.upload_fileobj start, each on the buffer as it stands.
SubmittedUploads == [a \in Artifacts |-> "running"]

EncodeJoin(i) ==
    /\ pc[i] = "encoding"
    /\ EncodeJoined(i)
    /\ IF \A a \in Artifacts : encTask[i][a] = "ok"
       THEN /\ pc' = [pc EXCEPT ![i] = "uploading"]
            /\ attempt' = [attempt EXCEPT ![i] = 0]
            /\ upTask' = [upTask EXCEPT ![i] = SubmittedUploads]
            /\ startPos' = [startPos EXCEPT ![i] = bufPos[i]]
            /\ uploadCalls' = [uploadCalls EXCEPT ![i] = [a \in Artifacts |-> @[a] + 1]]
            /\ putKeys' = [putKeys EXCEPT ![i] = [a \in Artifacts |-> @[a] \cup {KeyOf(i, a)}]]
            /\ exc' = exc
       ELSE /\ pc' = [pc EXCEPT ![i] = "raising"]
            /\ exc' = [exc EXCEPT ![i] =
                         Err(i, "encode", 0,
                             IF encTask[i]["main"] = "fail" THEN "main" ELSE "thumb")]
            /\ UNCHANGED <<attempt, upTask, startPos, uploadCalls, putKeys>>
    /\ UNCHANGED <<batchVars, encTask, bufPos, localVars, sent, firstFailed>>

\* ---- upload_main / upload_thumb -------------------------------------------
\* s3.upload_fileobj reads the buffer from its current position: a successful
\* upload has read the stream to its end, a failed one stopped anywhere
\* between the position it started at and the end.
UploadFinish(i, a, ok, p) ==
    /\ pc[i] = "uploading"
    /\ upTask[i][a] = "running"
    /\ bufPos[i][a] = "past" => p = "past"
    /\ ok => p = "past"
    /\ upTask' = [upTask EXCEPT ![i][a] = IF ok THEN "ok" ELSE "fail"]
    /\ bufPos' = [bufPos EXCEPT ![i][a] = p]
    /\ UNCHANGED <<batchVars, pc, encTask, attempt, startPos, uploadCalls, putKeys,
                   localVars, exc, sent, firstFailed>>

\* Leaving "with ThreadPoolExecutor(max_workers=2) as upload_executor" joins
\* both upload tasks, whether main_upload_future.result() returned or raised.
UploadJoined_NoWaitOnError(i) ==
    \/ upTask[i]["main"] = "fail"
    \/ \A a \in Artifacts : Finished(upTask[i][a])

UploadJoined(i) == \A a \in Artifacts : Finished(upTask[i][a])

\* The exception the try block raises: main_upload_future.result() is asked
\* first, thumb_upload_future.result() only when the main upload succeeded.
UploadError(i) ==
    Err(i, "upload", attempt[i] + 1,
        IF upTask[i]["main"] = "fail" THEN "main" ELSE "thumb")

Rewound_MainOnly(i) == [bufPos[i] EXCEPT !["main"] = "start"]

\* main_buffer.seek(0); thumb_buffer.seek(0)
Rewound(i) == [a \in Artifacts |-> "start"]

WillRetry_OneMore(i) == attempt[i] < max_retries

WillRetry(i) == attempt[i] < max_retries - 1

\* The except block: "continue" while attempts are left, else publish the
\* failure event and re-raise.
HandlerEvents_EveryAttempt(i) == <<FailedEvent(i, UploadError(i))>>

HandlerEvents(i) == IF WillRetry(i) THEN <<>> ELSE <<FailedEvent(i, UploadError(i))>>

UploadJoin(i) ==
    /\ pc[i] = "uploading"
    /\ UploadJoined(i)
    /\ IF \A a \in Artifacts : upTask[i][a] = "ok"
       THEN /\ sent' = [sent EXCEPT ![i] = Append(@, UploadedEvent(i))]
            /\ pc' = [pc EXCEPT ![i] = "returning"]
            /\ UNCHANGED <<upTask, attempt, bufPos, startPos, uploadCalls, putKeys, exc>>
       ELSE IF WillRetry(i)
            THEN /\ bufPos' = [bufPos EXCEPT ![i] = Rewound(i)]
                 /\ attempt' = [attempt EXCEPT ![i] = @ + 1]
                 /\ upTask' = [upTask EXCEPT ![i] = SubmittedUploads]
                 /\ startPos' = [startPos EXCEPT ![i] = bufPos'[i]]
                 /\ uploadCalls' = [uploadCalls EXCEPT ![i] = [a \in Artifacts |-> @[a] + 1]]
                 /\ putKeys' = [putKeys EXCEPT ![i] = [a \in Artifacts |-> @[a] \cup {KeyOf(i, a)}]]
                 /\ sent' = [sent EXCEPT ![i] = @ \o HandlerEvents(i)]
                 /\ UNCHANGED <<pc, exc>>
            ELSE /\ sent' = [sent EXCEPT ![i] = @ \o HandlerEvents(i)]
                 /\ exc' = [exc EXCEPT ![i] = UploadError(i)]
                 /\ pc' = [pc EXCEPT ![i] = "raising"]
                 /\ UNCHANGED <<upTask, attempt, bufPos, startPos, uploadCalls, putKeys>>
    /\ UNCHANGED <<batchVars, encTask, localVars, firstFailed>>

\* ---- the worker's future completes ----------------------------------------
Return(i) ==
    /\ pc[i] = "returning"
    /\ pc' = [pc EXCEPT ![i] = "done"]
    /\ UNCHANGED <<batchVars, encTask, uploadVars, bufPos, localVars, exc, sent, firstFailed>>

Raise(i) ==
    /\ pc[i] = "raising"
    /\ pc' = [pc EXCEPT ![i] = "failed"]
    /\ firstFailed' = IF firstFailed = -1 THEN i ELSE firstFailed
    /\ UNCHANGED <<batchVars, encTask, uploadVars, bufPos, localVars, exc, sent>>

\* ---- process(): "for future in futures: future.result()" and pool exit ----
\* future.result() re-raises the exception of the future the loop stands at.
RaisedError_FirstCompleted == exc[firstFailed]

RaisedError == exc[futIdx]

FutureResult ==
    /\ procState = "waiting"
    /\ IF futIdx < nImages
       THEN /\ Terminal(futIdx)
            /\ IF pc[futIdx] = "done"
               THEN /\ futIdx' = futIdx + 1
                    /\ UNCHANGED <<procState, procErr>>
               ELSE /\ procErr' = RaisedError
                    /\ procState' = "shutdown"
                    /\ futIdx' = futIdx
       ELSE /\ procState' = "shutdown"
            /\ UNCHANGED <<futIdx, procErr>>
    /\ UNCHANGED <<config, s3, inputVars, nImages, pc, encTask, uploadVars, bufPos,
                   localVars, exc, sent, firstFailed>>

\* ThreadPoolExecutor.__exit__ is shutdown(wait=True): it returns once every
\* submitted image has run to the end, then the pending exception propagates.
PoolDrained_NoWait == TRUE

PoolDrained == \A i \in Images : i < nImages => Terminal(i)

\* "return {...}" unless an exception is pending.
ExitState_ErrorSwallowed == "returned"

ExitState == IF procErr = NoErr THEN "returned" ELSE "raised"

PoolExit ==
    /\ procState = "shutdown"
    /\ PoolDrained
    /\ procState' = ExitState
    /\ UNCHANGED <<config, s3, inputVars, nImages, futIdx, procErr, pc, encTask,
                   uploadVars, bufPos, localVars, exc, sent, firstFailed>>

\* ---- the batches process() is called with --------------------------------
\* Image k of a batch has the k-th of these shapes (the first two share an
\* orientation); the public URL ends in n mod 3 slashes for a batch of n.
TestShapes ==
    <<[w |-> 3, h |-> 2], [w |-> 4, h |-> 2], [w |-> 2, h |-> 3], [w |-> 2, h |-> 2]>>

TestImages(n) == [k \in 1 .. n |-> TestShapes[((k - 1) % Len(TestShapes)) + 1]]

TestUrl(n) == <<"https://cdn">> \o [k \in 1 .. (n % 3) |-> "/"]

Next ==
    \/ \E cfg \in [ConfigFields -> BOOLEAN], n \in 0 .. NumImages :
          process(cfg, TestImages(n), thumb_size_default, TestUrl(n))
    \/ \E i \in Images, ok \in BOOLEAN : StartImage(i, ok)
    \/ \E i \in Images, a \in Artifacts, ok \in BOOLEAN : EncodeFinish(i, a, ok)
    \/ \E i \in Images : EncodeJoin(i)
    \/ \E i \in Images, a \in Artifacts, ok \in BOOLEAN, p \in Positions :
          UploadFinish(i, a, ok, p)
    \/ \E i \in Images : UploadJoin(i)
    \/ \E i \in Images : Return(i)
    \/ \E i \in Images : Raise(i)
    \/ FutureResult
    \/ PoolExit

Spec == Init /\ [][Next]_vars

\* ---- a batch larger than the worker pool, every call succeeding ----------
AllFields == [f \in ConfigFields |-> TRUE]

PoolNext ==
    \/ process(AllFields, TestImages(PoolImages), thumb_size_default, TestUrl(PoolImages))
    \/ \E i \in Images, ok \in BOOLEAN : StartImage(i, ok)
    \/ \E i \in Images, a \in Artifacts : EncodeFinish(i, a, TRUE)
    \/ \E i \in Images : EncodeJoin(i)
    \/ \E i \in Images, a \in Artifacts : UploadFinish(i, a, TRUE, "past")
    \/ \E i \in Images : UploadJoin(i)
    \/ \E i \in Images : Return(i)
    \/ \E i \in Images : Raise(i)
    \/ FutureResult
    \/ PoolExit

PoolSpec == Init /\ [][PoolNext]_vars

\* ---- one image of any shape up to MaxDim x MaxDim, any thumb_size ---------
ThumbSizes == {thumb_size_min, thumb_size_default, thumb_size_max}

DimNext ==
    \/ /\ procState = "idle"
       /\ \E w \in 1 .. MaxDim, h \in 1 .. MaxDim, size \in ThumbSizes :
             process(AllFields, <<[w |-> w, h |-> h]>>, size, TestUrl(1))
    \/ \E ok \in BOOLEAN : StartImage(0, ok)

DimSpec == Init /\ [][DimNext]_vars

\* ---- batches of one or two images, every fault, fair scheduling ------------
\* Every thread that can take a step eventually takes one, and every storage
\* call returns (UploadFinish is always enabled for a running upload).
RetryNext ==
    \/ /\ procState = "idle"
       /\ \E n \in 1 .. 2 :
             process(AllFields, TestImages(n), thumb_size_default, TestUrl(n))
    \/ \E i \in Images, ok \in BOOLEAN : StartImage(i, ok)
    \/ \E i \in Images, a \in Artifacts, ok \in BOOLEAN : EncodeFinish(i, a, ok)
    \/ \E i \in Images : EncodeJoin(i)
    \/ \E i \in Images, a \in Artifacts, ok \in BOOLEAN, p \in Positions :
          UploadFinish(i, a, ok, p)
    \/ \E i \in Images : UploadJoin(i)
    \/ \E i \in Images : Return(i)
    \/ \E i \in Images : Raise(i)
    \/ FutureResult
    \/ PoolExit

RetrySpec == Init /\ [][RetryNext]_vars /\ WF_vars(RetryNext)

\* ==== properties ==========================================================
InBatch(i) == i \in Images /\ i < nImages
SomeFieldEmpty == \E f \in ConfigFields : ~config[f]
BatchStarted == procState # "idle" /\ ~SomeFieldEmpty
ProcessEnded == procState \in {"returned", "raised"}
Events(i) == {sent[i][k].event : k \in 1 .. Len(sent[i])}

\* C1: once an upload of an artifact of an image has been confirmed, no later
\* attempt for that image calls the storage upload for that artifact again
\* (an upload task that ended "ok" is never followed by a new upload call of
\* the same artifact).
C1_ConfirmedNotReuploaded ==
    [][\A i \in Images, a \in Artifacts :
          upTask[i][a] = "ok" => upTask'[i][a] # "running"]_vars

\* C2: when process() has returned or raised for a batch that passed the
\* configuration validation, exactly one event has been published for every
\* image of the batch, whichever stage of the image succeeded or failed.
C2_ExactlyOneEventPerImage ==
    (ProcessEnded /\ BatchStarted) => \A i \in Images : InBatch(i) => Len(sent[i]) = 1

\* C3: in every reachable state at most one event has been published for any
\* one image, whatever the pattern of upload successes and failures.
C3_AtMostOneEvent == \A i \in Images : Len(sent[i]) <= 1

C3_Witness ==
    \E i \in Images :
        /\ attempt[i] = max_retries - 1
        /\ pc[i] \in {"done", "failed"}
        /\ Len(sent[i]) = 1

ExhaustedRetries(i) == pc[i] \in {"raising", "failed"} /\ exc[i].stage = "upload"

\* C4: when the last of the max_retries upload attempts of an image fails,
\* exactly one failure event has been published for it before its error
\* reaches the batch scheduler; the event carries the image's index and the
\* error of the failed last attempt, and no success event exists for it.
C4_ExhaustedRetriesNotified ==
    \A i \in Images :
        ExhaustedRetries(i) =>
            /\ Len(sent[i]) = 1
            /\ sent[i][1].event = "s3-upload-failed"
            /\ sent[i][1].index = i
            /\ sent[i][1].error = exc[i]
            /\ exc[i].idx = i
            /\ exc[i].attempt = max_retries
            /\ upTask[i][exc[i].art] = "fail"
            /\ "s3-image-uploaded" \notin Events(i)

C4_Witness ==
    \E i \in Images :
        /\ i > 0
        /\ pc[i] = "failed"
        /\ exc[i].stage = "upload"
        /\ procState = "raised"
        /\ procErr = exc[i]

\* C5: a call of process() with any of the five configuration fields empty
\* raises the configuration error and leaves everything else as it was: no
\* client, no image dispatched, no upload call, no event.
C5_ConfigErrorChangesNothing ==
    (procState # "idle" /\ SomeFieldEmpty) =>
        /\ procState = "raised"
        /\ procErr = ConfigErr
        /\ s3 = FALSE
        /\ nImages = 0
        /\ futIdx = 0
        /\ \A i \in Images :
              /\ pc[i] = "none"
              /\ sent[i] = <<>>
              /\ exc[i] = NoErr
              /\ attempt[i] = 0
              /\ \A a \in Artifacts :
                    /\ uploadCalls[i][a] = 0
                    /\ encTask[i][a] = "idle"
                    /\ upTask[i][a] = "idle"
                    /\ bufPos[i][a] = "none"
        /\ firstFailed = -1

C5_Witness ==
    /\ procState = "raised"
    /\ procErr = ConfigErr
    /\ ~config["s3_bucket"]
    /\ \A f \in ConfigFields \ {"s3_bucket"} : config[f]

ImageStep(i) ==
    \/ \E ok \in BOOLEAN : StartImage(i, ok)
    \/ \E a \in Artifacts, ok \in BOOLEAN : EncodeFinish(i, a, ok)
    \/ EncodeJoin(i)
    \/ \E a \in Artifacts, ok \in BOOLEAN, p \in Positions : UploadFinish(i, a, ok, p)
    \/ UploadJoin(i)
    \/ Return(i)
    \/ Raise(i)

\* C6: a failed image never cancels or skips a sibling: process() returns or
\* raises only when every image of the batch has run to done or failed, and
\* until then every unfinished image can still take a step or is queued
\* behind an image that can, also after a sibling has failed and process() is
\* already unwinding.
C6_SiblingsRunToTheEnd ==
    /\ (ProcessEnded /\ BatchStarted) => \A i \in Images : InBatch(i) => Terminal(i)
    /\ BatchStarted =>
          \A i \in Images :
              (InBatch(i) /\ ~Terminal(i)) =>
                  \/ ENABLED ImageStep(i)
                  \/ /\ pc[i] = "queued"
                     /\ \E j \in Images : j # i /\ ENABLED ImageStep(j)

C6_Witness ==
    /\ procState = "raised"
    /\ nImages = NumImages
    /\ pc[0] = "failed"
    /\ exc[0].stage = "upload"
    /\ firstFailed = 0
    /\ \A i \in Images \ {0} : InBatch(i) => (pc[i] = "done" /\ attempt[i] > 0)
    /\ \A i \in Images : InBatch(i) => Len(sent[i]) = 1

FailedImages == {i \in Images : InBatch(i) /\ pc[i] = "failed"}
LowestFailed == CHOOSE i \in FailedImages : \A j \in FailedImages : i <= j

\* C7 (as claimed): when two or more images fail, process() re-raises the
\* error of the image that failed first in completion order.
C7_FirstCompletedFailureRaised ==
    (procState = "raised" /\ BatchStarted) => procErr = exc[firstFailed]

\* C7 (amended): process() re-raises the error of the failed image with the
\* lowest index, whatever the order in which the images failed.
C7_LowestIndexFailureRaised ==
    (procState = "raised" /\ BatchStarted) =>
        /\ FailedImages # {}
        /\ procErr = exc[LowestFailed]
        /\ procErr.idx = LowestFailed

C7_Witness ==
    /\ procState = "raised"
    /\ Cardinality(FailedImages) >= 2
    /\ firstFailed # LowestFailed
    /\ procErr = exc[LowestFailed]

\* C8: when an encode of an image fails, the encode is not retried, no upload
\* is attempted, and a failure event with the image's index has been
\* published before the error reaches the batch scheduler.
C8_EncodeFailureNotified ==
    \A i \in Images :
        (pc[i] \in {"raising", "failed"} /\ exc[i].stage = "encode") =>
            /\ \A a \in Artifacts : uploadCalls[i][a] = 0
            /\ Len(sent[i]) = 1
            /\ sent[i][1].event = "s3-upload-failed"
            /\ sent[i][1].index = i

\* C9: no upload call of an image exists before both its encodes have
\* completed, and an event of an image is published only when none of its
\* upload tasks is still running.
C9_EncodeThenUploadThenEvent ==
    \A i \in Images :
        /\ (\E a \in Artifacts : uploadCalls[i][a] > 0 \/ upTask[i][a] # "idle") =>
              \A a \in Artifacts : encTask[i][a] = "ok"
        /\ sent[i] # <<>> => \A a \in Artifacts : Finished(upTask[i][a])

C9_Witness ==
    \E i \in Images :
        /\ sent[i] # <<>>
        /\ upTask[i]["main"] = "fail"
        /\ upTask[i]["thumb"] = "ok"
        /\ bufPos[i]["main"] = "start"

\* C10: every upload call, first attempt or retry, starts with the artifact's
\* buffer at position 0, and the rewind between two attempts happens only
\* when both upload tasks of the previous attempt have ended.
C10_UploadsStartAtStreamStart ==
    /\ [](\A i \in Images, a \in Artifacts :
             uploadCalls[i][a] > 0 => startPos[i][a] = "start")
    /\ [][\A i \in Images :
             attempt'[i] # attempt[i] => \A a \in Artifacts : Finished(upTask[i][a])]_vars

C10_Witness ==
    \E i \in Images :
        /\ attempt[i] = max_retries - 1
        /\ \A a \in Artifacts :
              /\ upTask[i][a] = "running"
              /\ uploadCalls[i][a] = max_retries
              /\ startPos[i][a] = "start"

\* C11: at most max_workers images are being processed at a time; an image
\* has at most 2 encode tasks or at most 2 upload tasks in flight, never an
\* encode and an upload together, and never more upload calls than attempts
\* begun; so at most 2 * max_workers upload calls are in flight overall.
Running(task, i) == {a \in Artifacts : task[i][a] = "running"}
InFlight(task) == {<<i, a>> \in Images \X Artifacts : task[i][a] = "running"}

Started(i) == loc[i] # NoLocals

C12_ThumbIsSquare ==
    \A i \in Images :
        Started(i) => (loc[i].thumb_w = thumb_size /\ loc[i].thumb_h = thumb_size)

\* C12 (amended): the thumbnail is S by S exactly when W = H; otherwise the
\* edge along the longer side of the image is S and the other edge is
\* smaller than S.
C12_ThumbFitsInSquare ==
    \A i \in Images :
        Started(i) =>
            /\ loc[i].w = loc[i].h => (loc[i].thumb_w = thumb_size /\ loc[i].thumb_h = thumb_size)
            /\ loc[i].w > loc[i].h => (loc[i].thumb_w = thumb_size /\ loc[i].thumb_h < thumb_size)
            /\ loc[i].w < loc[i].h => (loc[i].thumb_h = thumb_size /\ loc[i].thumb_w < thumb_size)

C12_Witness ==
    \E i \in Images :
        /\ Started(i)
        /\ loc[i].w = 3 /\ loc[i].h = 2 /\ thumb_size = thumb_size_default
        /\ loc[i].thumb_w = 600 /\ loc[i].thumb_h = 400

\* C13: the main key and the thumbnail key of an image are
\* generated/originals/<orientation>/<id>.webp and
\* generated/thumbnails/<orientation>/<id>_thumb.webp with one id and one
\* orientation segment; the id is drawn once per image, so every upload call
\* of every attempt is given the same key; and no two images of a batch
\* upload to the same key.
Orientations == {"landscape", "portrait", "square"}

C13_KeysSharedIdAndFresh ==
    /\ [](\A i \in Images :
             Started(i) =>
                 /\ loc[i].orientation \in Orientations
                 /\ loc[i].main_key = <<"generated/originals/", loc[i].orientation, "/",
                                        loc[i].filename, ".webp">>
                 /\ loc[i].thumb_key = <<"generated/thumbnails/", loc[i].orientation, "/",
                                         loc[i].filename, "_thumb.webp">>
                 /\ putKeys[i]["main"] \subseteq {loc[i].main_key}
                 /\ putKeys[i]["thumb"] \subseteq {loc[i].thumb_key}
                 /\ \A a \in Artifacts : uploadCalls[i][a] > 0 => putKeys[i][a] # {})
    /\ [](\A i, j \in Images, a, b \in Artifacts :
             <<i, a>> # <<j, b>> => putKeys[i][a] \cap putKeys[j][b] = {})
    /\ [][\A i \in Images :
             /\ Started(i) => loc'[i] = loc[i]
             /\ putKeys[i]["main"] \subseteq putKeys'[i]["main"]
             /\ putKeys[i]["thumb"] \subseteq putKeys'[i]["thumb"]]_vars

C13_Witness ==
    \E i, j \in Images :
        /\ i # j
        /\ loc[i].orientation = loc[j].orientation
        /\ attempt[i] = max_retries - 1
        /\ \A a \in Artifacts :
              /\ uploadCalls[i][a] = max_retries
              /\ putKeys[i][a] = {KeyOf(i, a)}
              /\ putKeys[j][a] = {KeyOf(j, a)}

\* C14: _get_orientation(W, H) is "landscape" if and only if W > H,
\* "portrait" if and only if H > W, and "square" if and only if W = H.
C14_OrientationIff ==
    \A i \in Images :
        Started(i) =>
            /\ loc[i].orientation = "landscape" <=> loc[i].w > loc[i].h
            /\ loc[i].orientation = "portrait" <=> loc[i].h > loc[i].w
            /\ loc[i].orientation = "square" <=> loc[i].w = loc[i].h

C14_Witness ==
    \E i \in Images :
        /\ Started(i)
        /\ loc[i].w = loc[i].h /\ loc[i].w = MaxDim
        /\ loc[i].orientation = "square"

\* C15 (as claimed): every published event is named "image-uploaded" for a
\* success and "upload-failed" for a failure, and no other name is published.
Succeeded(i) == pc[i] \in {"returning", "done"}

C15_ClaimedEventNames ==
    \A i \in Images :
        /\ Events(i) \subseteq {"image-uploaded", "upload-failed"}
        /\ (Succeeded(i) /\ sent[i] # <<>>) => Events(i) = {"image-uploaded"}
        /\ (ExhaustedRetries(i) /\ sent[i] # <<>>) => Events(i) = {"upload-failed"}

\* C15 (amended): every published event is named "s3-image-uploaded" for a
\* success and "s3-upload-failed" for a failure, and no other name is published.
C15_PublishedEventNames ==
    \A i \in Images :
        /\ Events(i) \subseteq {"s3-image-uploaded", "s3-upload-failed"}
        /\ Succeeded(i) => Events(i) = {"s3-image-uploaded"}
        /\ ExhaustedRetries(i) => Events(i) = {"s3-upload-failed"}
        /\ \A k \in 1 .. Len(sent[i]) :
              /\ sent[i][k].event = "s3-image-uploaded" =>
                    (Succeeded(i) /\ "url" \in DOMAIN sent[i][k])
              /\ sent[i][k].event = "s3-upload-failed" =>
                    (ExhaustedRetries(i) /\ "error" \in DOMAIN sent[i][k])

C15_Witness ==
    \E i, j \in Images :
        /\ pc[i] = "done" /\ Events(i) = {"s3-image-uploaded"}
        /\ pc[j] = "failed" /\ Events(j) = {"s3-upload-failed"}

\* C16: the upload phase of an image ends within max_retries attempts. The
\* number of the attempt in flight (the loop variable plus one) is 1, 2 or 3;
\* a new attempt is made only after an attempt in which an upload failed;
\* the attempt in which both uploads succeed is the last one and the image
\* ends done; when the third attempt fails the image ends failed; no upload
\* call is made once the image is past its upload phase; and every image in
\* its upload phase eventually ends done or failed.
AllUploaded(i) == \A a \in Artifacts : upTask[i][a] = "ok"
SomeUploadFailed(i) == \E a \in Artifacts : upTask[i][a] = "fail"
PastUploads(i) == pc[i] \in {"returning", "done", "raising", "failed"}

C16_UploadPhaseTerminates ==
    /\ [](\A i \in Images :
             /\ attempt[i] \in 0 .. (max_retries - 1)
             /\ \A a \in Artifacts : uploadCalls[i][a] \in 0 .. max_retries
             /\ pc[i] = "uploading" =>
                   \A a \in Artifacts : uploadCalls[i][a] = attempt[i] + 1
             /\ Succeeded(i) =>
                   /\ AllUploaded(i)
                   /\ \A a \in Artifacts : uploadCalls[i][a] = attempt[i] + 1
             /\ ExhaustedRetries(i) =>
                   /\ SomeUploadFailed(i)
                   /\ \A a \in Artifacts : uploadCalls[i][a] = max_retries)
    /\ [][\A i \in Images :
             /\ uploadCalls'[i] # uploadCalls[i] =>
                   /\ pc[i] \in {"encoding", "uploading"}
                   /\ pc'[i] = "uploading"
                   /\ pc[i] = "uploading" =>
                         (SomeUploadFailed(i) /\ attempt'[i] = attempt[i] + 1)
             /\ PastUploads(i) =>
                   /\ uploadCalls'[i] = uploadCalls[i]
                   /\ upTask'[i] = upTask[i]
                   /\ attempt'[i] = attempt[i]
             /\ (pc[i] = "uploading" /\ pc'[i] = "returning") => AllUploaded(i)
             /\ (pc[i] = "uploading" /\ pc'[i] = "raising") =>
                   (SomeUploadFailed(i) /\ attempt[i] = max_retries - 1)]_vars
    /\ \A i \in Images :
          /\ (pc[i] = "uploading") ~> Terminal(i)
          /\ (pc[i] = "uploading" /\ AllUploaded(i)) ~> (pc[i] = "done")
          /\ (pc[i] = "uploading" /\ attempt[i] = max_retries - 1 /\ SomeUploadFailed(i))
                ~> (pc[i] = "failed")

C16_Witness ==
    \E i, j \in Images :
        /\ pc[i] = "done" /\ attempt[i] = 1 /\ uploadCalls[i]["thumb"] = 2
        /\ pc[j] = "failed" /\ exc[j].stage = "upload"
        /\ uploadCalls[j]["thumb"] = max_retries

\* C17: with several images in the pool at once, the success event of image i
\* carries the keys image i's own upload calls were given, urls equal to the
\* public url without its trailing slashes, plus "/", plus that key, and the
\* orientation, width and height of image i; no key of another image appears
\* in it; and the failure event of image i carries index i.
IsUrlOf(url, key) ==
    \E n \in 0 .. Len(public_url) :
        /\ n > 0 => public_url[n] # "/"
        /\ \A k \in (n + 1) .. Len(public_url) : public_url[k] = "/"
        /\ url = SubSeq(public_url, 1, n) \o <<"/">> \o key

C17_EventsCarryOwnData ==
    \A i \in Images : \A k \in 1 .. Len(sent[i]) :
        /\ "url" \in DOMAIN sent[i][k] =>
              /\ putKeys[i]["main"] = {sent[i][k].path}
              /\ putKeys[i]["thumb"] = {sent[i][k].thumb_path}
              /\ IsUrlOf(sent[i][k].url, sent[i][k].path)
              /\ IsUrlOf(sent[i][k].thumb_url, sent[i][k].thumb_path)
              /\ sent[i][k].width = images[i + 1].w
              /\ sent[i][k].height = images[i + 1].h
              /\ sent[i][k].orientation = loc[i].orientation
              /\ sent[i][k].orientation = "landscape" <=> images[i + 1].w > images[i + 1].h
              /\ sent[i][k].orientation = "portrait" <=> images[i + 1].w < images[i + 1].h
              /\ \A j \in Images \ {i}, a \in Artifacts :
                    /\ sent[i][k].path \notin putKeys[j][a]
                    /\ sent[i][k].thumb_path \notin putKeys[j][a]
        /\ "index" \in DOMAIN sent[i][k] =>
              /\ sent[i][k].index = i
              /\ sent[i][k].error.idx = i

C17_Witness ==
    /\ nImages = NumImages
    /\ Len(public_url) > 1
    /\ public_url[Len(public_url)] = "/"
    /\ Len(sent[0]) = 1 /\ Len(sent[1]) = 1
    /\ "url" \in DOMAIN sent[0][1]
    /\ sent[0][1].width = 3
    /\ ("url" \in DOMAIN sent[1][1] /\ sent[1][1].width = 4 /\ attempt[1] > 0)

\* C18: for a batch that passed the configuration validation, process()
\* returns normally if and only if every image of the batch ended done with
\* its success event published; if some image ended failed, process() raises,
\* and a raise is never followed by a return.
AllSucceeded ==
    \A i \in Images :
        InBatch(i) => (pc[i] = "done" /\ Events(i) = {"s3-image-uploaded"})

C18_ReturnsIffAllSucceeded ==
    /\ [](procState = "returned" => (AllSucceeded /\ procErr = NoErr))
    /\ []((ProcessEnded /\ BatchStarted) =>
            /\ procState = "returned" <=> AllSucceeded
            /\ procState = "raised" <=> FailedImages # {}
            /\ procState = "raised" => (procErr # NoErr /\ procErr.idx \in FailedImages))
    /\ [][procState = "raised" => procState' = "raised"]_vars
    /\ [][FailedImages # {} => procState' # "returned"]_vars

C18_Witness ==
    /\ procState = "raised"
    /\ nImages = NumImages
    /\ Cardinality(FailedImages) = 1
    /\ \E i \in Images : InBatch(i) /\ pc[i] = "done" /\ Len(sent[i]) = 1

\* C19: for every W >= 1, H >= 1 and thumb_size in 100..1200 the thumbnail's
\* long edge is thumb_size, its short edge is floor(short * thumb_size / long),
\* and both are at least 1, so that the resize is never given a zero size.
IsFloorOf(q, num, den) == q * den <= num /\ num < (q + 1) * den

C19_FitDimsPositive ==
    \A i \in Images :
        Started(i) =>
            /\ loc[i].w > loc[i].h =>
                  /\ loc[i].thumb_w = thumb_size
                  /\ IsFloorOf(loc[i].thumb_h, loc[i].h * thumb_size, loc[i].w)
            /\ loc[i].w <= loc[i].h =>
                  /\ loc[i].thumb_h = thumb_size
                  /\ IsFloorOf(loc[i].thumb_w, loc[i].w * thumb_size, loc[i].h)
            /\ loc[i].thumb_w >= 1
            /\ loc[i].thumb_h >= 1

\* ---- fairness: a thread that can take a step eventually takes one ---------
FairSpec == Spec /\ WF_vars(Next)

\* Under FairSpec every dispatched image ends done or failed and process()
\* returns or raises.
EveryImageTerminates ==
    /\ \A i \in Images : (pc[i] = "queued") ~> Terminal(i)
    /\ BatchStarted ~> ProcessEnded
====
